---- MODULE Spec2Model ----
(***************************************************************************)
(* The hand-rolled JSON parser of src/src/json.rs as a state machine.      *)
(*                                                                         *)
(* A text is a sequence of one-character strings.  The shared cursor       *)
(* (`&mut Chars`) is the pair (input, pos): pos characters of input have   *)
(* been consumed.  The Rust call stack is the sequence `stack` of frames,  *)
(* one per active parser function, each holding that function's locals.    *)
(* One action per parser function: one firing is one iteration of the      *)
(* function's `while let Some(c) = tail.next()` loop (or the loop's exit   *)
(* when the cursor is exhausted), including the prologue of any function   *)
(* the iteration calls and the delivery of a returned value to the caller. *)
(***************************************************************************)
EXTENDS Integers, Sequences, FiniteSets, TLC

VARIABLES
    entry,   \* the function the caller invokes: parse_json or one literal parser
    head,    \* the `head` argument of a direct call ("" for parse_json)
    input,   \* the text behind the cursor handed to the entry function
    pos,     \* number of characters of input consumed so far
    stack,   \* active frames, the innermost last
    result,  \* what the entry call returned: none yet, Ok, Err or Panic
    prev,    \* result of the first parse, once the text is parsed again
    base,    \* the text of the first parse, once the text is parsed again
    json_data,  \* the byte buffer handed to extract_json_str, sanitize_json
                \* or (as the haystack) find_pattern
    key,        \* the key handed to extract_json_str, the needle handed to
                \* find_pattern
    extracted   \* what that function returned: none yet, then its value

vars == <<entry, head, input, pos, stack, result, prev, base, json_data, key, extracted>>

(***************************************************************************)
(* Bounds of the model.                                                    *)
(***************************************************************************)
MaxLen == 3       \* longest text drawn exhaustively from Alphabet
MaxElems == 2     \* most elements of a generated integer array
MaxMembers == 2   \* most members of a generated object body
MaxNum == 3       \* longest text drawn exhaustively from NumAlphabet
MaxVal == 2       \* most units in the value of a generated buffer
MaxNeedle == 2    \* longest needle handed to find_pattern
MaxHay == 4       \* longest haystack handed to find_pattern
MaxData == 4      \* longest buffer handed to sanitize_json on its own

(***************************************************************************)
(* Characters.                                                             *)
(***************************************************************************)
Chars(s) == [i \in 1..Len(s) |-> SubSeq(s, i, i)]

Digits == {"0", "1", "2", "3", "4", "5", "6", "7", "8", "9"}

\* A character that TLA+ strings cannot spell is the symbolic character
\* "U+hhhh" of its code point, as U+0008 and U+000C here.
Backspace == "U+0008"
FormFeed == "U+000C"

HexDigit(n) ==
    <<"0", "1", "2", "3", "4", "5", "6", "7", "8", "9", "A", "B", "C", "D", "E", "F">>[n + 1]

Hex4(n) ==
    "U+" \o HexDigit(n \div 4096) \o HexDigit((n \div 256) % 16)
         \o HexDigit((n \div 16) % 16) \o HexDigit(n % 16)

\* The character of a code point, among those that are whitespace or control.
CodePoint(n) ==
    CASE n = 9 -> "\t"
      [] n = 10 -> "\n"
      [] n = 13 -> "\r"
      [] n = 32 -> " "
      [] OTHER -> Hex4(n)

\* char::is_whitespace: the characters of the Unicode property White_Space,
\* U+0009..U+000D, U+0020, U+0085, U+00A0, U+1680, U+2000..U+200A, U+2028,
\* U+2029, U+202F, U+205F, U+3000.
WhiteSpace ==
    {CodePoint(n) : n \in (9..13) \cup {32, 133, 160, 5760} \cup (8192..8202)
                          \cup {8232, 8233, 8239, 8287, 12288}}

\* char::is_control: the characters of the general category Cc,
\* U+0000..U+001F and U+007F..U+009F.
Control == {CodePoint(n) : n \in (0..31) \cup (127..159)}

is_digit_nonzero(c) == c \in Digits \ {"0"}
is_digit(c) == c \in Digits

is_whitespace(c) == c \in WhiteSpace

is_control_never(c) == FALSE
is_control(c) == c \in Control

Min(a, b) == IF a < b THEN a ELSE b

(***************************************************************************)
(* JsonValue, JsonError and the result of a call.                          *)
(***************************************************************************)
Null == [t |-> "Null"]
Boolean(b) == [t |-> "Boolean", bool |-> b]
String(s) == [t |-> "String", str |-> s]
Array(a) == [t |-> "Array", arr |-> a]
Object(m) == [t |-> "Object", map |-> m]
\* An i64 as sign and magnitude, the magnitude in decimal digits without
\* leading zeros (TLC's own integers are 32 bits wide).
Integer(neg, mag) == [t |-> "Integer", neg |-> neg, mag |-> mag]
\* An f64 as the double it is: sign, significand and binary exponent, the
\* value being mant * 2^exp.  The significand is in decimal digits; it lies
\* in 2^52..2^53-1 for a normal double, below 2^52 with exp = -1074 for a
\* subnormal one, and is "0" with exp = 0 for zero.
Float(neg, mant, exp) == [t |-> "Float", neg |-> neg, mant |-> mant, exp |-> exp]
\* The infinite f64 of either sign.
FloatInfinity(neg) == [t |-> "Float", neg |-> neg, mant |-> <<"inf">>, exp |-> 0]

UnexpectedToken == [e |-> "UnexpectedToken"]
UnexpectedTokenCh(c) == [e |-> "UnexpectedTokenCh", ch |-> c]
UnexpectedEndOfInput == [e |-> "UnexpectedEndOfInput"]
OverOneDecimalPoint == [e |-> "OverOneDecimalPoint"]
DecimalPointPlacedAfter(c) == [e |-> "DecimalPointPlacedAfter", ch |-> c]
InconvertibleToFloat(s, cause) == [e |-> "InconvertibleToFloat", text |-> s, cause |-> cause]
InconvertibleToInt(s, cause) == [e |-> "InconvertibleToInt", text |-> s, cause |-> cause]

NoResult == [kind |-> "none"]
Ok(v) == [kind |-> "Ok", val |-> v]
Err(e) == [kind |-> "Err", err |-> e]
\* `todo!()`: the thread panics, nothing is returned.
Panic == [kind |-> "Panic"]

None == [some |-> FALSE]
Some(x) == [some |-> TRUE, v |-> x]

get_string(v) == IF v.t = "String" THEN Some(v.str) ELSE None

\* HashMap::new and HashMap::insert (the later value replaces the earlier).
EmptyMap == <<>>
insert(m, k, v) == [x \in (DOMAIN m) \cup {k} |-> IF x = k THEN v ELSE m[x]]

(***************************************************************************)
(* str::parse::<i64> and str::parse::<f64> on the buffer parse_number      *)
(* builds: an optional leading '-', digits, at most one '.'.               *)
(***************************************************************************)
DigitVal(c) ==
    CASE c = "0" -> 0 [] c = "1" -> 1 [] c = "2" -> 2 [] c = "3" -> 3
      [] c = "4" -> 4 [] c = "5" -> 5 [] c = "6" -> 6 [] c = "7" -> 7
      [] c = "8" -> 8 [] c = "9" -> 9

RECURSIVE StripLeadingZeros(_)
StripLeadingZeros(ds) ==
    IF Len(ds) > 1 /\ Head(ds) = "0" THEN StripLeadingZeros(Tail(ds)) ELSE ds

\* a <= b for two digit sequences of the same length.
RECURSIVE DigitsLeq(_, _)
DigitsLeq(a, b) ==
    IF a = <<>> THEN TRUE
    ELSE IF DigitVal(Head(a)) < DigitVal(Head(b)) THEN TRUE
    ELSE IF DigitVal(Head(a)) > DigitVal(Head(b)) THEN FALSE
    ELSE DigitsLeq(Tail(a), Tail(b))

I64MaxDigits == Chars("9223372036854775807")
I64MinDigits == Chars("9223372036854775808")

FitsI64(neg, mag) ==
    LET lim == IF neg THEN I64MinDigits ELSE I64MaxDigits
    IN  \/ Len(mag) < Len(lim)
        \/ Len(mag) = Len(lim) /\ DigitsLeq(mag, lim)

parse_i64_strict(buffer) ==
    LET neg == buffer # <<>> /\ Head(buffer) = "-"
        ds == IF neg THEN Tail(buffer) ELSE buffer
        mag == StripLeadingZeros(ds)
    IN  IF buffer = <<>> THEN Err(InconvertibleToInt(buffer, "Empty"))
        ELSE IF ds = <<>> \/ \E i \in 1..Len(ds) : ~is_digit(ds[i])
        THEN Err(InconvertibleToInt(buffer, "InvalidDigit"))
        ELSE IF Len(ds) > 1 /\ Head(ds) = "0"
        THEN Err([e |-> "IntegerWithLeadingZero"])
        ELSE IF ~FitsI64(neg, mag)
        THEN Err(InconvertibleToInt(buffer, IF neg THEN "NegOverflow" ELSE "PosOverflow"))
        ELSE Ok(Integer(neg /\ mag # <<"0">>, mag))

parse_i64(buffer) ==
    LET neg == buffer # <<>> /\ Head(buffer) = "-"
        ds == IF neg THEN Tail(buffer) ELSE buffer
        mag == StripLeadingZeros(ds)
    IN  IF buffer = <<>> THEN Err(InconvertibleToInt(buffer, "Empty"))
        ELSE IF ds = <<>> \/ \E i \in 1..Len(ds) : ~is_digit(ds[i])
        THEN Err(InconvertibleToInt(buffer, "InvalidDigit"))
        ELSE IF ~FitsI64(neg, mag)
        THEN Err(InconvertibleToInt(buffer, IF neg THEN "NegOverflow" ELSE "PosOverflow"))
        ELSE Ok(Integer(neg /\ mag # <<"0">>, mag))

(***************************************************************************)
(* str::parse::<f64>: the double nearest to a decimal, ties to the even    *)
(* significand.  The decimal is scaled by powers of two, exactly, until    *)
(* its integral part is a 53-bit significand, and then rounded.            *)
(***************************************************************************)
DigitChar(n) == <<"0", "1", "2", "3", "4", "5", "6", "7", "8", "9">>[n + 1]

\* A digit sequence without its leading zeros ("0" for zero).
Significant(ds) ==
    LET nz == {i \in 1..Len(ds) : ds[i] # "0"}
    IN  IF nz = {} THEN <<"0">>
        ELSE SubSeq(ds, CHOOSE i \in nz : \A j \in nz : i <= j, Len(ds))

\* a < b for two digit sequences of any length.
DigitsLess(a, b) ==
    \E x \in {Significant(a)}, y \in {Significant(b)} :
        \/ Len(x) < Len(y)
        \/ /\ Len(x) = Len(y)
           /\ \E i \in 1..Len(x) :
                 /\ DigitVal(x[i]) < DigitVal(y[i])
                 /\ \A j \in 1..(i - 1) : x[j] = y[j]

\* A decimal int.frac doubled, exactly: a digit receives a carry exactly
\* when the digit after it is 5 or more.
DoubleDecimal(int, frac) ==
    CHOOSE r \in
        {[int |-> SubSeq(twice, 1, Len(int) + 1),
          frac |-> SubSeq(twice, Len(int) + 2, Len(twice))] :
            twice \in
              {[i \in 1..Len(ds) |->
                  DigitChar((2 * DigitVal(ds[i])
                             + (IF i < Len(ds) /\ DigitVal(ds[i + 1]) >= 5 THEN 1 ELSE 0)) % 10)] :
                 ds \in {<<"0">> \o int \o frac}}} : TRUE

\* A decimal int.frac halved, exactly, with one more fractional digit: a
\* digit receives ten exactly when the digit before it is odd.
HalveDecimal(int, frac) ==
    CHOOSE r \in
        {[int |-> SubSeq(half, 1, Len(int)),
          frac |-> SubSeq(half, Len(int) + 1, Len(half))] :
            half \in
              {[i \in 1..Len(ds) |->
                  DigitChar((DigitVal(ds[i])
                             + (IF i > 1 /\ DigitVal(ds[i - 1]) % 2 = 1 THEN 10 ELSE 0)) \div 2)] :
                 ds \in {int \o frac \o <<"0">>}}} : TRUE

\* A digit sequence plus one.
Increment(ds) ==
    LET low == {i \in 1..Len(ds) : ds[i] # "9"}
        k == IF low = {} THEN 0 ELSE CHOOSE i \in low : \A j \in low : j <= i
    IN  (IF k = 0 THEN <<"1">>
         ELSE SubSeq(ds, 1, k - 1) \o <<DigitChar(DigitVal(ds[k]) + 1)>>)
        \o [i \in 1..(Len(ds) - k) |-> "0"]

Two52 == Chars("4503599627370496")
Two53 == Chars("9007199254740992")

\* One step of scaling int.frac * 2^(-e) towards 2^52 <= int < 2^53: a
\* halving, a doubling (not below e = -1074, where the value is too small to
\* be normal), or nothing once it is there.
ScaleStep(s) ==
    IF ~DigitsLess(s.int, Two53)
    THEN CHOOSE r \in {[int |-> h.int, frac |-> h.frac, e |-> s.e + 1] :
                          h \in {HalveDecimal(s.int, s.frac)}} : TRUE
    ELSE IF DigitsLess(s.int, Two52) /\ s.e > -1074
    THEN CHOOSE r \in {[int |-> d.int, frac |-> d.frac, e |-> s.e - 1] :
                          d \in {DoubleDecimal(Significant(s.int), s.frac)}} : TRUE
    ELSE [int |-> Significant(s.int), frac |-> s.frac, e |-> s.e]

\* 2^k steps, each on the value of the one before.
RECURSIVE ScaleSteps(_, _)
ScaleSteps(s, k) ==
    IF k = 0 THEN ScaleStep(s)
    ELSE CHOOSE r \in {ScaleSteps(b, k - 1) : b \in {ScaleSteps(s, k - 1)}} : TRUE

\* The scaling carried through.  A decimal of d digits needs at most
\* 4 * d + 56 steps (a digit is worth less than four binary places), and
\* one of at most 309 integral digits at most 1074 + 53 + 4 * 309 < 2^12;
\* a step on a scaled value leaves it as it is.
Scale(int, frac) ==
    LET need == 4 * (Len(int) + Len(frac)) + 56
        k == IF need >= 4096 THEN 12
             ELSE CHOOSE n \in 0..12 : 2^n >= need /\ (n = 0 \/ 2^(n - 1) < need)
    IN  CHOOSE r \in {ScaleSteps(s, k) : s \in {[int |-> int, frac |-> frac, e |-> 0]}} : TRUE

\* Rounding to nearest, ties to even: whether the fraction rounds up.
RoundsUp(int, frac) ==
    LET rest == {i \in 2..Len(frac) : frac[i] # "0"}
    IN  /\ frac # <<>>
        /\ \/ DigitVal(frac[1]) > 5
           \/ DigitVal(frac[1]) = 5 /\ rest # {}
           \/ DigitVal(frac[1]) = 5 /\ rest = {} /\ DigitVal(int[Len(int)]) % 2 = 1

\* The double nearest to the decimal int.frac with the given sign.
nearest_f64(neg, int, frac) ==
    IF \A i \in 1..Len(int \o frac) : (int \o frac)[i] = "0"
    THEN Float(neg, <<"0">>, 0)
    ELSE IF Len(Significant(int)) > 309 THEN FloatInfinity(neg)
    ELSE CHOOSE r \in
           {IF (IF m = Two53 THEN s.e + 1 ELSE s.e) > 971 THEN FloatInfinity(neg)
            ELSE IF m = <<"0">> THEN Float(neg, <<"0">>, 0)
            ELSE IF m = Two53 THEN Float(neg, Two52, s.e + 1)
            ELSE Float(neg, m, s.e) :
              <<s, m>> \in {<<t, IF RoundsUp(t.int, t.frac) THEN Increment(t.int) ELSE t.int>> :
                               t \in {Scale(Significant(int), frac)}}} : TRUE

parse_f64(buffer) ==
    LET neg == buffer # <<>> /\ Head(buffer) = "-"
        ds == IF neg THEN Tail(buffer) ELSE buffer
        dots == {i \in 1..Len(ds) : ds[i] = "."}
        dot == IF dots = {} THEN Len(ds) + 1 ELSE CHOOSE i \in dots : TRUE
        int == SubSeq(ds, 1, dot - 1)
        frac == SubSeq(ds, dot + 1, Len(ds))
        wellformed ==
            /\ Cardinality(dots) <= 1
            /\ Len(int) + Len(frac) > 0
            /\ \A i \in 1..Len(ds) : i \in dots \/ is_digit(ds[i])
    IN  IF buffer = <<>> THEN Err(InconvertibleToFloat(buffer, "Empty"))
        ELSE IF ~wellformed THEN Err(InconvertibleToFloat(buffer, "Invalid"))
        ELSE Ok(nearest_f64(neg, int, frac))

(***************************************************************************)
(* The cursor and the call stack.                                          *)
(***************************************************************************)
\* A step's outcome: the cursor, the stack and the entry call's result.
Outcome(p, stk, res) == [pos |-> p, stack |-> stk, result |-> res]

\* Chars::next on a cursor that is not exhausted: the character it yields
\* is text[p + 1], and the cursor moves past it.
next_peek(p) == p
next(p) == p + 1

exhausted(text, p) == p >= Len(text)

Top(stk) == stk[Len(stk)]
Callers(stk) == SubSeq(stk, 1, Len(stk) - 1)
ReplaceTop(stk, f) == [stk EXCEPT ![Len(stk)] = f]

\* What parse_object does with the value a call it made returns: the key
\* string of the `'"'` arm, or the member value of the `':'` arm.
ObjectResume(f, v) ==
    IF f.call = "parse_string"
    THEN LET s == get_string(v)
         IN  IF s.some
             THEN [f EXCEPT !.key = Some(s.v), !.awaiting_val = TRUE, !.call = "none"]
             ELSE [f EXCEPT !.call = "none"]
    ELSE [f EXCEPT !.buffer = insert(f.buffer, f.key.v, v),
                   !.key = None, !.call = "none"]

\* The innermost function returns r to `callers` with the cursor at p.  Every
\* call site applies `?`, so an Err unwinds the whole stack; an Ok value is
\* pushed by parse_array or taken by parse_object, whose loop then goes on.
Return(callers, p, r) ==
    CHOOSE o \in
        {IF callers = <<>> \/ got.kind # "Ok" THEN Outcome(p, <<>>, got)
         ELSE LET f == Top(callers)
              IN  IF f.fn = "parse_array"
                  THEN Outcome(p, ReplaceTop(callers, [f EXCEPT !.buffer = Append(f.buffer, got.val)]), NoResult)
                  ELSE Outcome(p, ReplaceTop(callers, ObjectResume(f, got.val)), NoResult) :
           got \in {r}} : TRUE

\* A call: the callee's code before its loop, with `stk` the frames below it.
Call(fn, h, stk, p) ==
    CASE fn = "parse_value" ->
            Outcome(p, Append(stk, [fn |-> "parse_value"]), NoResult)
      [] fn = "parse_number" ->
            IF ~is_digit(h) /\ h # "-"
            THEN Return(stk, p, Err(UnexpectedTokenCh(h)))
            ELSE Outcome(p, Append(stk, [fn |-> "parse_number", buffer |-> <<h>>,
                                         floating_point |-> FALSE, previous |-> h]), NoResult)
      [] fn = "parse_boolean" ->
            Outcome(p, Append(stk, [fn |-> "parse_boolean", head |-> h]), NoResult)
      [] fn = "parse_string" ->
            IF h # "\""
            THEN Return(stk, p, Err(UnexpectedToken))
            ELSE Outcome(p, Append(stk, [fn |-> "parse_string", head |-> h, buffer |-> <<>>]), NoResult)
      [] fn = "parse_array" ->
            Outcome(p, Append(stk, [fn |-> "parse_array", head |-> h, buffer |-> <<>>]), NoResult)
      [] fn = "parse_object" ->
            IF h # "{"
            THEN Return(stk, p, Err(UnexpectedToken))
            ELSE Outcome(p, Append(stk, [fn |-> "parse_object", head |-> h, buffer |-> EmptyMap,
                                         key |-> None, value |-> None,
                                         awaiting_val |-> FALSE, call |-> "none"]), NoResult)

(***************************************************************************)
(* One iteration of each parser's loop, as a function of the cursor and    *)
(* the stack whose top frame is that parser's.                             *)
(***************************************************************************)
parse_value_step(text, p, stk) ==
    IF exhausted(text, p) THEN Return(Callers(stk), p, Err(UnexpectedEndOfInput))
    ELSE LET c == text[p + 1]
             q == next(p)
         IN  CASE is_whitespace(c) \/ is_control(c) -> Outcome(q, stk, NoResult)
               [] c \in {"t", "f"} -> Call("parse_boolean", c, Callers(stk), q)
               [] c = "\"" -> Call("parse_string", c, Callers(stk), q)
               [] is_digit(c) \/ c = "-" -> Call("parse_number", c, Callers(stk), q)
               [] c = "{" -> Call("parse_object", c, Callers(stk), q)
               [] c = "[" -> Call("parse_array", c, Callers(stk), q)
               [] OTHER -> Return(Callers(stk), q, Err(UnexpectedTokenCh(c)))

\* The conversion after parse_number's loop.
number_value_float(f) == parse_f64(f.buffer)
number_value(f) ==
    IF f.floating_point THEN parse_f64(f.buffer) ELSE parse_i64(f.buffer)

parse_number_step(text, p, stk) ==
    LET f == Top(stk)
    IN  IF exhausted(text, p) THEN Return(Callers(stk), p, number_value(f))
        ELSE LET c == text[p + 1]
                 q == next(p)
             IN  CASE c \in {",", "}", "]"} -> Return(Callers(stk), q, number_value(f))
                   [] c = "." ->
                        IF f.floating_point
                        THEN Return(Callers(stk), q, Err(OverOneDecimalPoint))
                        ELSE IF ~is_digit(f.previous)
                        THEN Return(Callers(stk), q, Err(DecimalPointPlacedAfter(f.previous)))
                        ELSE Outcome(q, ReplaceTop(stk, [f EXCEPT !.floating_point = TRUE,
                                                                  !.buffer = Append(f.buffer, c)]), NoResult)
                   [] is_digit(c) ->
                        Outcome(q, ReplaceTop(stk, [f EXCEPT !.buffer = Append(f.buffer, c),
                                                            !.previous = c]), NoResult)
                   [] OTHER -> Return(Callers(stk), q, Err(UnexpectedTokenCh(c)))

\* Iterator::take(n).collect(): up to n characters, fewer at the end of input.
take_short(text, p, n) == SubSeq(text, p + 1, Min(p + n - 1, Len(text)))
take(text, p, n) == SubSeq(text, p + 1, Min(p + n, Len(text)))

parse_boolean_step(text, p, stk) ==
    LET f == Top(stk)
        n == IF f.head = "t" THEN 3 ELSE IF f.head = "f" THEN 4 ELSE 0
        taken == take(text, p, n)
        q == p + Len(taken)
    IN  IF f.head = "t" /\ taken = Chars("rue") THEN Return(Callers(stk), q, Ok(Boolean(TRUE)))
        ELSE IF f.head = "f" /\ taken = Chars("alse") THEN Return(Callers(stk), q, Ok(Boolean(FALSE)))
        ELSE Return(Callers(stk), q, Err(UnexpectedToken))

escape_raw(c) == c
escape(c) ==
    CASE c = "n" -> "\n"
      [] c = "r" -> "\r"
      [] c = "t" -> "\t"
      [] c = "b" -> Backspace
      [] c = "f" -> FormFeed
      [] OTHER -> c

\* The String parse_string returns at the closing quote.
string_value(f) == String(<<f.head>> \o f.buffer)

\* What parse_string returns when the input ends inside the literal.
string_unterminated == Ok(Null)

parse_string_step(text, p, stk) ==
    LET f == Top(stk)
    IN  IF exhausted(text, p) THEN Return(Callers(stk), p, string_unterminated)
        ELSE LET c == text[p + 1]
                 q == next(p)
             IN  CASE c = "\"" -> Return(Callers(stk), q, Ok(string_value(f)))
                   [] c = "\\" ->
                        IF exhausted(text, q)
                        THEN Return(Callers(stk), q, Err(UnexpectedEndOfInput))
                        ELSE Outcome(next(q), ReplaceTop(stk, [f EXCEPT !.buffer = Append(f.buffer, escape(text[q + 1]))]), NoResult)
                   [] OTHER ->
                        Outcome(q, ReplaceTop(stk, [f EXCEPT !.buffer = Append(f.buffer, c)]), NoResult)

\* What parse_array returns when the input ends before `]`.
array_unterminated(f) == Ok(Array(f.buffer))

parse_array_step(text, p, stk) ==
    LET f == Top(stk)
    IN  IF exhausted(text, p) THEN Return(Callers(stk), p, array_unterminated(f))
        ELSE LET c == text[p + 1]
                 q == next(p)
             IN  CASE is_whitespace(c) \/ is_control(c) -> Outcome(q, stk, NoResult)
                   [] c = "]" -> Return(Callers(stk), q, Ok(Array(f.buffer)))
                   [] c = "," -> Outcome(q, stk, NoResult)
                   [] OTHER -> Call("parse_value", "", stk, q)

\* The head parse_object hands to parse_string for a member's key.
key_head_quote(f) == "\""
key_head(f) == f.head

\* What parse_object does when the input ends: `todo!()`.
object_unterminated(f) == Panic

parse_object_step(text, p, stk) ==
    LET f == Top(stk)
    IN  IF exhausted(text, p) THEN Outcome(p, <<>>, object_unterminated(f))
        ELSE LET c == text[p + 1]
                 q == next(p)
             IN  CASE is_whitespace(c) \/ is_control(c) -> Outcome(q, stk, NoResult)
                   [] c = ":" /\ f.key.some /\ ~f.value.some ->
                        Call("parse_value", "", ReplaceTop(stk, [f EXCEPT !.call = "parse_value"]), q)
                   [] c \in {",", "}"} /\ f.key.some /\ f.value.some ->
                        Outcome(q, ReplaceTop(stk, [f EXCEPT !.buffer = insert(f.buffer, f.key.v, f.value.v),
                                                            !.key = None, !.value = None]), NoResult)
                   [] c = "\"" /\ ~f.key.some /\ ~f.value.some ->
                        Call("parse_string", key_head(f), ReplaceTop(stk, [f EXCEPT !.call = "parse_string"]), q)
                   [] OTHER -> Outcome(q, stk, NoResult)

(***************************************************************************)
(* The texts the parsers are run on.                                       *)
(***************************************************************************)
Alphabet == {"[", "]", "{", "}", "\"", "\\", ",", " ", "1"}

RawTexts == UNION {[1..n -> Alphabet] : n \in 0..MaxLen}

RECURSIVE Concat(_)
Concat(ss) == IF ss = <<>> THEN <<>> ELSE Head(ss) \o Concat(Tail(ss))

\* The texts of the unit tests (head and tail joined), of the comments of
\* json.rs and of the specification's examples.
Samples ==
    { Chars("1234"), Chars("-123"), Chars("123.4"), Chars("-123.4"),
      Chars("\"test\""), Chars("\"\\\"test\\\"\""), Chars("\"\\n\\t\\\\\\\"\""),
      Chars("true"), Chars("false"), Chars("null"),
      Chars("[[1, 2, 3]"), Chars("[1, 2, 3]"),
      Chars("{\"key\": \"value\" }"), Chars("{\"key\": 1234 }"),
      Chars("{\"key\": 12.34 }"), Chars("{\"key1\": true, \"key2\": false }"),
      Chars("{\"key\": [1, 2, 3] }"),
      Chars("{\"a\":1,\"a\":2}"), Chars("{\"a\":"), Chars("[\"a\""), Chars("[3, 4"),
      Chars("[1, [2, [3, {\"k\": [4, 5]}]]]"),
      Chars("[1,,2]"), Chars("[1,2,]"), Chars("-.5"), Chars("1.2.3"), Chars("0123"),
      Chars("[12]"), Chars("[x12]"), Chars("[ true]"), Chars("[,\"a\"]"),
      Chars("9223372036854775807"), Chars("9223372036854775808"),
      Chars("-9223372036854775808"), Chars("-9223372036854775809"),
      Chars("1x2"), Chars("12a"), Chars("1 ,"), Chars("12.5]"), Chars("-7}x"),
      Chars("t"), Chars("f"), Chars("tru"), Chars("trux"), Chars("truex"),
      Chars("fals"), Chars("falsx"), Chars("falsee"), Chars("talse"), Chars("frue"),
      Chars("xrue"), Chars("\n\ttrue"), Chars(" \r\n"), Chars("\t\"a\""),
      Chars(" x"), Chars("nul"), Chars(":1"), <<Backspace, FormFeed, "-", "1">>,
      <<"U+000B", "1">>, <<"[", "U+000B", "]">>, <<"U+0000", "1">>, <<"U+007F", "1">>,
      <<"U+001F", "U+0001", "t", "r", "u", "e">>, <<"[", "U+0000", "x", "1", "]">>,
      <<"U+00A0", "U+3000", "1">>, <<"U+0085", "U+2028", "\"", "a", "\"">>,
      <<"U+009F", "U+1680", "U+200A", "[", "U+205F", "]">>, <<"U+00A1", "1">>,
      <<"U+200B", "1">>, <<"{", "U+202F", "U+0080", "}">>,
      Chars("\"\\r\\b\\f\\x\\/\""), Chars("\"a\\"), Chars("\"\\\"") }

\* Number texts: every text up to MaxNum characters over the characters of a
\* literal and one terminator.
NumAlphabet == {"-", ".", "0", "1", ","}

NumTexts == UNION {[1..n -> NumAlphabet] : n \in 0..MaxNum}

\* Integer arrays: up to MaxElems literals, separated by "," or ", ".
IntLits == <<Chars("1"), Chars("2"), Chars("34")>>

IntArrayShapes == UNION {[1..n -> 1..Len(IntLits)] : n \in 0..MaxElems}

IntArrayText(shape, sep) ==
    <<"[">> \o Concat([i \in 1..Len(shape) |->
                          (IF i = 1 THEN <<>> ELSE sep) \o IntLits[shape[i]]])
            \o <<"]">>

IntArrayValue(shape) ==
    Array([i \in 1..Len(shape) |-> Integer(FALSE, IntLits[shape[i]])])

Separators == {Chars(","), Chars(", ")}

IntArrayTexts == {IntArrayText(sh, sep) : sh \in IntArrayShapes, sep \in Separators}

\* Object bodies in the layout of the unit tests, `"k1": v1, "k2": v2 }`:
\* up to MaxMembers members, each a key and one member value.
MemberKeys == <<Chars("a"), Chars("b")>>

MemberValues ==
    << [text |-> Chars("\"v\""), val |-> String(Chars("v"))],
       [text |-> Chars("12"), val |-> Integer(FALSE, Chars("12"))],
       [text |-> Chars("1.5"), val |-> Float(FALSE, Chars("6755399441055744"), -52)],
       [text |-> Chars("true"), val |-> Boolean(TRUE)],
       [text |-> Chars("[1, 2]"),
        val |-> Array(<<Integer(FALSE, Chars("1")), Integer(FALSE, Chars("2"))>>)] >>

Members == (1..Len(MemberKeys)) \X (1..Len(MemberValues))

ObjectShapes == UNION {[1..n -> Members] : n \in 0..MaxMembers}

ObjectBody(shape) ==
    Concat([i \in 1..Len(shape) |->
               (IF i = 1 THEN <<>> ELSE Chars(", "))
               \o <<"\"">> \o MemberKeys[shape[i][1]] \o Chars("\": ")
               \o MemberValues[shape[i][2]].text])
    \o Chars(" }")

ObjectKeys(shape) == {MemberKeys[shape[i][1]] : i \in 1..Len(shape)}

DistinctKeys(shape) == Cardinality(ObjectKeys(shape)) = Len(shape)

ObjectValue(shape) ==
    Object([k \in ObjectKeys(shape) |->
               LET i == CHOOSE j \in 1..Len(shape) : MemberKeys[shape[j][1]] = k
               IN  MemberValues[shape[i][2]].val])

ObjectTexts == {<<"{">> \o ObjectBody(sh) : sh \in ObjectShapes}

Texts == RawTexts \cup Samples \cup IntArrayTexts \cup ObjectTexts \cup NumTexts

Entries ==
    {"parse_json", "parse_number", "parse_boolean", "parse_string",
     "parse_array", "parse_object"}

(***************************************************************************)
(* Places where whitespace may be inserted between two tokens.             *)
(***************************************************************************)
\* Whether the first n characters of text end inside a string literal.
RECURSIVE InString(_, _)
InString(text, n) ==
    IF n = 0 THEN FALSE
    ELSE LET before == InString(text, n - 1)
             escaped == before /\ n >= 2 /\ text[n - 1] = "\\"
                               /\ ~(n >= 3 /\ text[n - 2] = "\\")
         IN  IF text[n] = "\"" /\ ~escaped THEN ~before ELSE before

Structural == {"[", "]", "{", "}", ",", ":"}

\* n characters in, the text is between two tokens: outside a string, with a
\* structural character on one side.
TokenBoundary(text, n) ==
    /\ n \in 1..(Len(text) - 1)
    /\ ~InString(text, n)
    /\ text[n] \in Structural \/ text[n + 1] \in Structural

InsertAt(text, n, c) == SubSeq(text, 1, n) \o <<c>> \o SubSeq(text, n + 1, Len(text))

Blanks == {" ", "\n", "U+0000"}

(***************************************************************************)
(* The key extraction of api.rs and the search of search.rs.  Bytes are    *)
(* ASCII, written as the characters they encode.                           *)
(***************************************************************************)
InvalidJson == [e |-> "InvalidJson"]
NoPattern(data) == [e |-> "NoPattern", data |-> data]

is_ascii_whitespace(byte) == byte \in {" ", "\t", "\n", FormFeed, "\r"}

\* The byte values sanitize_json computes with.
Byte(c) ==
    CASE c = "[" -> 91
      [] c = "]" -> 93
      [] c = "{" -> 123
      [] c = "}" -> 125

\* The loop of sanitize_json from byte i on (1-based), and its final
\* expression once the bytes are exhausted.
RECURSIVE sanitize_loop(_, _, _, _, _, _)
sanitize_loop(data, i, ordering_stack, escaping, quoting, stripped) ==
    IF i > Len(data)
    THEN IF ordering_stack = <<>> /\ ~quoting /\ ~escaping THEN Some(stripped) ELSE None
    ELSE LET byte == data[i]
             out == IF ~is_ascii_whitespace(byte) THEN Append(stripped, byte) ELSE stripped
         IN  IF escaping
             THEN sanitize_loop(data, i + 1, ordering_stack, FALSE, quoting, out)
             ELSE IF byte = "\\"
             THEN sanitize_loop(data, i + 1, ordering_stack, TRUE, quoting, out)
             ELSE IF byte = "\""
             THEN sanitize_loop(data, i + 1, ordering_stack, escaping, ~quoting, out)
             ELSE IF quoting
             THEN sanitize_loop(data, i + 1, ordering_stack, escaping, quoting, out)
             ELSE IF byte \in {"{", "["}
             THEN sanitize_loop(data, i + 1, Append(ordering_stack, byte), escaping, quoting, out)
             ELSE IF byte \in {"}", "]"}
             THEN IF ordering_stack = <<>> THEN None
                  ELSE LET stack_byte == ordering_stack[Len(ordering_stack)]
                       IN  IF Byte(byte) - 2 # Byte(stack_byte) THEN None
                           ELSE sanitize_loop(data, i + 1,
                                              SubSeq(ordering_stack, 1, Len(ordering_stack) - 1),
                                              escaping, quoting, out)
             ELSE sanitize_loop(data, i + 1, ordering_stack, escaping, quoting, out)

sanitize_json(data) == sanitize_loop(data, 1, <<>>, FALSE, FALSE, <<>>)

\* The loop of find_pattern from index idx on (0-based, as in the source)
\* and the test after it: Some(<<beg, end>>) or None.
RECURSIVE find_loop(_, _, _, _, _)
find_loop(needle, haystack, idx, needle_idx, found_beg_idx) ==
    IF idx >= Len(haystack) THEN None
    ELSE IF haystack[idx + 1] = needle[needle_idx + 1]
    THEN LET beg == IF needle_idx = 0 /\ ~found_beg_idx.some THEN Some(idx) ELSE found_beg_idx
         IN  IF needle_idx + 1 = Len(needle)
             THEN Some(<<beg.v, idx>>)
             ELSE find_loop(needle, haystack, idx + 1, needle_idx + 1, beg)
    ELSE find_loop(needle, haystack, idx + 1, 0, None)

find_pattern(needle, haystack) == find_loop(needle, haystack, 0, 0, None)

\* format!("\"{}\":\"", key)
pattern(k) == <<"\"">> \o k \o <<"\"", ":", "\"">>

\* Iterator::take_while(|b| b != b'"') over the bytes from index `from` on
\* (0-based).
RECURSIVE take_while_not_quote(_, _)
take_while_not_quote(data, from) ==
    IF from >= Len(data) \/ data[from + 1] = "\"" THEN <<>>
    ELSE <<data[from + 1]>> \o take_while_not_quote(data, from + 1)

extract_json_str(data, k) ==
    LET sanitized == sanitize_json(data)
    IN  IF ~sanitized.some THEN Err(InvalidJson)
        ELSE LET found == find_pattern(pattern(k), sanitized.v)
             IN  IF ~found.some THEN Err(NoPattern(sanitized.v))
                 ELSE Ok(take_while_not_quote(sanitized.v, found.v[1] + Len(pattern(k))))

(***************************************************************************)
(* Buffers for the key extraction: a prefix, a member `"k":"value` and a   *)
(* suffix, the value made of up to MaxVal units.                           *)
(***************************************************************************)
ApiKeys == {<<"k">>, <<"a", "b">>}

ValueUnits == {<<"a">>, <<"b">>, <<" ">>, <<"\\", "\"">>, <<"\\", "\\">>}

RECURSIVE ValuesOf(_)
ValuesOf(n) ==
    IF n = 0 THEN {<<>>}
    ELSE ValuesOf(n - 1) \cup {v \o u : v \in ValuesOf(n - 1), u \in ValueUnits}

Prefixes == {<<>>, Chars("{"), Chars("{ "), Chars("[{"), Chars("{\"a\":1,"),
             Chars("{\""), Chars("}")}

Suffixes == {<<>>, Chars("\""), Chars("\"}"), Chars("\" }"), Chars("\"}]"),
             Chars("\",\"k\":\"b\"}")}

Buffers ==
    {pre \o pattern(k) \o v \o suf :
        pre \in Prefixes, k \in ApiKeys, v \in ValuesOf(MaxVal), suf \in Suffixes}

\* Needles and haystacks for the search: every non-empty needle up to
\* MaxNeedle bytes and every haystack up to MaxHay bytes over two bytes.
SearchBytes == {"a", "b"}

Needles == UNION {[1..n -> SearchBytes] : n \in 1..MaxNeedle}

Haystacks == UNION {[1..n -> SearchBytes] : n \in 0..MaxHay}

\* Buffers for sanitize_json: every buffer up to MaxData bytes over quotes,
\* a backslash, a blank, a letter and a pair of braces.
SanitizeBytes == {"\"", "\\", " ", "a", "{", "}"}

RawData == UNION {[1..n -> SanitizeBytes] : n \in 0..MaxData}

(***************************************************************************)
(* The state machine.                                                      *)
(***************************************************************************)
Init ==
    /\ entry \in Entries
    /\ \E t \in Texts :
          IF entry = "parse_json"
          THEN head = "" /\ input = t
          ELSE t # <<>> /\ head = Head(t) /\ input = Tail(t)
    /\ pos = 0
    /\ stack = <<>>
    /\ result = NoResult
    /\ prev = NoResult
    /\ base = <<>>
    /\ json_data = <<>>
    /\ key = <<>>
    /\ extracted = NoResult

Returned == result.kind # "none"

Running(fn) == ~Returned /\ stack # <<>> /\ Top(stack).fn = fn

Become(o) ==
    /\ \E after \in {o} :
          /\ pos' = after.pos
          /\ stack' = after.stack
          /\ result' = after.result
    /\ UNCHANGED <<entry, head, input, prev, base, json_data, key, extracted>>

\* The caller invokes the entry function; parse_json calls parse_value on a
\* fresh cursor over its text.
Start ==
    /\ ~Returned
    /\ stack = <<>>
    /\ Become(Call(IF entry = "parse_json" THEN "parse_value" ELSE entry, head, <<>>, pos))

parse_value == Running("parse_value") /\ Become(parse_value_step(input, pos, stack))

parse_number == Running("parse_number") /\ Become(parse_number_step(input, pos, stack))

parse_boolean == Running("parse_boolean") /\ Become(parse_boolean_step(input, pos, stack))

parse_string == Running("parse_string") /\ Become(parse_string_step(input, pos, stack))

parse_array == Running("parse_array") /\ Become(parse_array_step(input, pos, stack))

parse_object == Running("parse_object") /\ Become(parse_object_step(input, pos, stack))

\* The caller parses a successfully parsed text once more, with one blank
\* inserted between two of its tokens.
Reparse ==
    /\ entry = "parse_json"
    /\ result.kind = "Ok"
    /\ prev = NoResult
    /\ \E n \in 1..Len(input), c \in Blanks :
          /\ TokenBoundary(input, n)
          /\ input' = InsertAt(input, n, c)
    /\ base' = input
    /\ prev' = result
    /\ pos' = 0
    /\ stack' = <<>>
    /\ result' = NoResult
    /\ UNCHANGED <<entry, head, json_data, key, extracted>>

Next ==
    \/ Start
    \/ parse_value
    \/ parse_number
    \/ parse_boolean
    \/ parse_string
    \/ parse_array
    \/ parse_object
    \/ Reparse

Spec == Init /\ [][Next]_vars

\* Every function that can run keeps running: the program's single thread
\* is never suspended.
LiveSpec == Spec /\ WF_vars(Next)

(***************************************************************************)
(* The caller of extract_json_str, find_pattern or sanitize_json: one call *)
(* on its arguments.                                                       *)
(***************************************************************************)
ApiEntries == {"extract_json_str", "find_pattern", "sanitize_json"}

ApiInit ==
    /\ entry \in ApiEntries
    /\ head = ""
    /\ input = <<>>
    /\ pos = 0
    /\ stack = <<>>
    /\ result = NoResult
    /\ prev = NoResult
    /\ base = <<>>
    /\ CASE entry = "extract_json_str" -> json_data \in Buffers /\ key \in ApiKeys
         [] entry = "find_pattern" -> json_data \in Haystacks /\ key \in Needles
         [] entry = "sanitize_json" -> json_data \in RawData /\ key = <<>>
    /\ extracted = NoResult

Extract ==
    /\ entry = "extract_json_str"
    /\ extracted = NoResult
    /\ extracted' = extract_json_str(json_data, key)
    /\ UNCHANGED <<entry, head, input, pos, stack, result, prev, base, json_data, key>>

Search ==
    /\ entry = "find_pattern"
    /\ extracted = NoResult
    /\ extracted' = find_pattern(key, json_data)
    /\ UNCHANGED <<entry, head, input, pos, stack, result, prev, base, json_data, key>>

Sanitize ==
    /\ entry = "sanitize_json"
    /\ extracted = NoResult
    /\ extracted' = sanitize_json(json_data)
    /\ UNCHANGED <<entry, head, input, pos, stack, result, prev, base, json_data, key>>

ApiNext == Extract \/ Search \/ Sanitize

ApiSpec == ApiInit /\ [][ApiNext]_vars

(***************************************************************************)
(* What a text denotes, for stating the claims.                            *)
(***************************************************************************)
IntegerOf(s) == Integer(FALSE, Chars(s))

\* The characters of a string literal from its i-th character on (the opening
\* quote already read), escapes resolved, and whether a closing quote ends it.
RECURSIVE Literal(_, _)
Literal(text, i) ==
    IF i > Len(text) THEN [closed |-> FALSE, str |-> <<>>]
    ELSE IF text[i] = "\"" THEN [closed |-> TRUE, str |-> <<>>]
    ELSE IF text[i] = "\\"
    THEN IF i + 1 > Len(text) THEN [closed |-> FALSE, str |-> <<>>]
         ELSE LET r == Literal(text, i + 2)
              IN  [closed |-> r.closed, str |-> <<escape(text[i + 1])>> \o r.str]
    ELSE LET r == Literal(text, i + 1)
         IN  [closed |-> r.closed, str |-> <<text[i]>> \o r.str]

\* The containers open after the first n characters of text, the innermost
\* last, and whether every closing delimiter so far matched its opener.
RECURSIVE Open(_, _)
Open(text, n) ==
    IF n = 0 THEN [ok |-> TRUE, open |-> <<>>]
    ELSE LET r == Open(text, n - 1)
             c == text[n]
         IN  IF ~r.ok \/ InString(text, n - 1) \/ c = "\"" THEN r
             ELSE IF c \in {"[", "{"} THEN [r EXCEPT !.open = Append(r.open, c)]
             ELSE IF c \in {"]", "}"}
             THEN IF r.open # <<>> /\ Top(r.open) = (IF c = "]" THEN "[" ELSE "{")
                  THEN [r EXCEPT !.open = Callers(r.open)]
                  ELSE [r EXCEPT !.ok = FALSE]
             ELSE r

\* The text opens a container and ends before that container is closed.
Unclosed(text) ==
    /\ text # <<>>
    /\ text[1] \in {"[", "{"}
    /\ \A n \in 1..Len(text) : Open(text, n).ok /\ Open(text, n).open # <<>>

\* The first parse of the call the caller made (not the parse of Reparse).
FirstParse == prev = NoResult

\* The text of the call: the head of a direct call and the text behind the
\* cursor, or the whole text given to parse_json.
CallText == IF entry = "parse_json" THEN input ELSE <<head>> \o input

Parsed(text) == FirstParse /\ entry = "parse_json" /\ input = text

\* The nested text of the specification and the tree its brackets describe.
NestingText == Chars("[1, [2, [3, {\"k\": [4, 5]}]]]")

NestingValue ==
    Array(<<IntegerOf("1"),
            Array(<<IntegerOf("2"),
                    Array(<<IntegerOf("3"),
                            Object([k \in {Chars("k")} |->
                                       Array(<<IntegerOf("4"), IntegerOf("5")>>)])>>)>>)>>)

(***************************************************************************)
(* The claims.                                                             *)
(***************************************************************************)

\* C1: for every text, parse_json returns Ok or Err; no text, `{}` included,
\* makes the parser abort.
C1_NeverAborts == entry = "parse_json" => result.kind \in {"none", "Ok", "Err"}

\* One step of a running parser: the cursor moves forward, or it stays and
\* the running function returns.
C2_Iteration ==
    (stack # <<>> /\ ~Returned) =>
        \/ pos' > pos
        \/ /\ pos' = pos
           /\ Len(stack') < Len(stack)
           /\ exhausted(input, pos) \/ Top(stack).fn = "parse_boolean"

\* C2: every parse of a finite text terminates, and every iteration of a
\* parser's loop moves the cursor forward by at least one character: the
\* cursor stays where it is only when the running function finds it exhausted
\* (or parse_boolean takes nothing) and returns.
C2_CursorAdvances == [][C2_Iteration]_vars /\ (~Returned ~> Returned)

C2_Witness ==
    /\ Parsed(Chars("\"\\n\\t\\\\\\\"\""))
    /\ Len(input) = 10
    /\ pos = Len(input)
    /\ result.kind = "Ok"

\* C3: for a terminated string literal, parse_string called with head `"`
\* returns String of exactly the decoded characters between the two quotes,
\* without either delimiter.
C3_StringContent ==
    (entry = "parse_string" /\ head = "\"" /\ FirstParse /\ Returned
        /\ Literal(input, 1).closed)
    => result = Ok(String(Literal(input, 1).str))

\* C4: when the input ends before the closing quote, parse_string returns
\* Err(UnexpectedEndOfInput), never Ok(Null) or another value.
C4_UnterminatedString ==
    (entry = "parse_string" /\ head = "\"" /\ FirstParse /\ Returned
        /\ ~Literal(input, 1).closed)
    => result = Err(UnexpectedEndOfInput)

\* C5: for a well-formed object body with distinct keys, parse_object called
\* with head `{` returns Ok(Object) mapping exactly each key to the value
\* parsed from its member.
C5_ObjectMembers ==
    (Returned /\ FirstParse /\ entry = "parse_object" /\ head = "{")
    => \A sh \in ObjectShapes :
          (Len(sh) >= 1 /\ DistinctKeys(sh) /\ input = ObjectBody(sh))
          => result = Ok(ObjectValue(sh))

\* Object texts in which a key occurs twice.
DuplicateKeyTexts ==
    {Chars("{\"a\":1,\"a\":2}")}
    \cup {<<"{">> \o ObjectBody(sh) : sh \in {x \in ObjectShapes : ~DistinctKeys(x)}}

\* C6: parsing an object in which a key occurs twice fails with an error; it
\* never returns an Object.
C6_DuplicateKeyFails ==
    (Returned /\ FirstParse /\ entry \in {"parse_json", "parse_object"}
        /\ CallText \in DuplicateKeyTexts)
    => result.kind = "Err"

C6_Witness ==
    /\ Parsed(Chars("{\"a\":1,\"a\":2}"))
    /\ result = Err(UnexpectedToken)

\* C7: when the cursor is exhausted before the closing delimiter of an open
\* container is seen, the parse fails with UnexpectedEndOfInput; it never
\* returns Ok with a partial array or object.
C7_UnclosedContainer ==
    (entry = "parse_json" /\ FirstParse /\ Returned /\ Unclosed(input))
    => result = Err(UnexpectedEndOfInput)

\* C8: for an array text of integer literals separated by commas (optionally
\* followed by a space) and closed by `]`, parse_array returns Ok(Array) with
\* one Integer per element, the source values in source order.
C8_IntegerArray ==
    (Returned /\ FirstParse /\ entry \in {"parse_json", "parse_array"})
    => \A sh \in IntArrayShapes, sep \in Separators :
          CallText = IntArrayText(sh, sep) => result = Ok(IntArrayValue(sh))

\* C9: the parsed tree has the nesting of the brackets of the text:
\* `[1, [2, [3, {"k": [4, 5]}]]]` yields the Array of Integer 1 and the Array
\* that nests 2, 3 and the Object whose "k" is the Array of 4 and 5.
C9_Nesting ==
    (Parsed(NestingText) /\ Returned) => result = Ok(NestingValue)

\* C10: a text that parses successfully parses to the same value with a blank
\* inserted between two of its tokens, directly after a number included.
C10_WhitespaceInsensitive ==
    (prev.kind = "Ok" /\ Returned) => result = prev

(***************************************************************************)
(* Number literals, for stating the claims about parse_number.             *)
(***************************************************************************)
Terminators == {",", "}", "]"}

\* The literal a number text starts with: its characters before the first
\* terminator, or all of them.
NumLiteral(text) ==
    LET ends == {i \in 1..Len(text) : text[i] \in Terminators}
        k == IF ends = {} THEN Len(text) + 1
             ELSE CHOOSE i \in ends : \A j \in ends : i <= j
    IN  SubSeq(text, 1, k - 1)

Unsigned(lit) == IF lit # <<>> /\ Head(lit) = "-" THEN Tail(lit) ELSE lit

\* An optional `-` and at least one decimal digit, nothing else.
IsIntLiteral(lit) ==
    /\ Unsigned(lit) # <<>>
    /\ \A i \in 1..Len(Unsigned(lit)) : Unsigned(lit)[i] \in Digits

\* An optional `-`, digits, and exactly one `.` placed after a digit.
IsFloatLiteral(lit) ==
    LET u == Unsigned(lit)
    IN  /\ Cardinality({i \in 1..Len(u) : u[i] = "."}) = 1
        /\ \A i \in 1..Len(u) : u[i] \in Digits \cup {"."}
        /\ \A i \in 1..Len(u) : u[i] = "." => (i > 1 /\ u[i - 1] \in Digits)

\* The decimal value of an integer literal, as an Integer.
DecimalValue(lit) ==
    LET mag == StripLeadingZeros(Unsigned(lit))
    IN  Integer(Head(lit) = "-" /\ mag # <<"0">>, mag)

\* The value of the literal lies in -9223372036854775808..9223372036854775807.
InI64Range(lit) ==
    LET mag == StripLeadingZeros(Unsigned(lit))
        lim == IF Head(lit) = "-" THEN I64MinDigits ELSE I64MaxDigits
    IN  Len(mag) < 19 \/ (Len(mag) = 19 /\ DigitsLeq(mag, lim))

NumberCall == FirstParse /\ Returned /\ entry \in {"parse_number", "parse_json"}

\* C11 as stated: every integer literal yields the Integer of its decimal
\* value, every literal with one `.` after a digit yields a Float.
C11_NumberValue_Original ==
    NumberCall =>
        LET lit == NumLiteral(CallText)
        IN  /\ IsIntLiteral(lit) => result = Ok(DecimalValue(lit))
            /\ IsFloatLiteral(lit) => (result.kind = "Ok" /\ result.val.t = "Float")

\* C11 (amended): an integer literal whose value lies in the i64 range yields
\* the Integer of its decimal value, one outside the range fails with
\* InconvertibleToInt; a literal with one `.` placed after a digit yields the
\* Float variant; the end of input ends the literal as a terminator does.
C11_NumberValue ==
    NumberCall =>
        LET lit == NumLiteral(CallText)
        IN  /\ (IsIntLiteral(lit) /\ InI64Range(lit)) => result = Ok(DecimalValue(lit))
            /\ (IsIntLiteral(lit) /\ ~InI64Range(lit)) =>
                  (result.kind = "Err" /\ result.err.e = "InconvertibleToInt")
            /\ IsFloatLiteral(lit) => (result.kind = "Ok" /\ result.val.t = "Float")

C11_Witness ==
    /\ NumberCall
    /\ entry = "parse_number"
    /\ CallText = Chars("-123")
    /\ result = Ok(Integer(TRUE, Chars("123")))

\* What the character at position i of a number text is charged with, read
\* on its own: "none" when it is allowed there.
Offence(text, i) ==
    LET c == text[i]
    IN  IF i = 1
        THEN IF c \in Digits \cup {"-"} THEN [e |-> "none"] ELSE UnexpectedTokenCh(c)
        ELSE IF c = "."
             THEN IF \E j \in 1..(i - 1) : text[j] = "." THEN OverOneDecimalPoint
                  ELSE IF text[i - 1] \notin Digits
                       THEN DecimalPointPlacedAfter(text[i - 1])
                       ELSE [e |-> "none"]
             ELSE IF c \in Digits \cup Terminators THEN [e |-> "none"]
                  ELSE UnexpectedTokenCh(c)

\* The positions of a number text that are read: up to its first terminator
\* after the head.
ReadPositions(text) ==
    {i \in 1..Len(text) : \A j \in 2..(i - 1) : text[j] \notin Terminators}

Offending(text) == {i \in ReadPositions(text) : Offence(text, i).e # "none"}

FirstOffending(text) == CHOOSE i \in Offending(text) : \A j \in Offending(text) : i <= j

MalformedErrors == {"UnexpectedTokenCh", "OverOneDecimalPoint", "DecimalPointPlacedAfter"}

\* C12: parse_number fails with the error of the first offending character
\* of the literal (a head that is neither digit nor `-`, a second `.`, a first
\* `.` after a non-digit, any other character that is not a digit or a
\* terminator), and with none of these errors when no character offends.
C12_FirstOffence ==
    (FirstParse /\ Returned /\ entry = "parse_number") =>
        IF Offending(CallText) # {}
        THEN result = Err(Offence(CallText, FirstOffending(CallText)))
        ELSE result.kind = "Err" => result.err.e \notin MalformedErrors

C12_Witness ==
    /\ FirstParse
    /\ entry = "parse_number"
    /\ CallText = Chars("-.5")
    /\ FirstOffending(CallText) = 2
    /\ result = Err(DecimalPointPlacedAfter("-"))

\* The first n characters of the cursor's text, all of it when it is shorter.
Upto(text, n) == SubSeq(text, 1, IF n <= Len(text) THEN n ELSE Len(text))

\* C13: parse_boolean with head `t` consumes 3 further characters (all that
\* are left when the input ends earlier) and returns Boolean(true) exactly
\* when they are `rue`; with head `f` it consumes 4 and returns Boolean(false)
\* exactly when they are `alse`; every other call returns Err(UnexpectedToken).
C13_Boolean ==
    (FirstParse /\ Returned /\ entry = "parse_boolean") =>
        CASE head = "t" ->
                /\ pos = Len(Upto(input, 3))
                /\ result = IF Upto(input, 3) = <<"r", "u", "e">>
                            THEN Ok(Boolean(TRUE)) ELSE Err(UnexpectedToken)
          [] head = "f" ->
                /\ pos = Len(Upto(input, 4))
                /\ result = IF Upto(input, 4) = <<"a", "l", "s", "e">>
                            THEN Ok(Boolean(FALSE)) ELSE Err(UnexpectedToken)
          [] OTHER -> result = Err(UnexpectedToken)

C13_Witness ==
    /\ FirstParse
    /\ entry = "parse_boolean"
    /\ head = "f"
    /\ input = Chars("alsee")
    /\ pos = 4
    /\ result = Ok(Boolean(FALSE))

\* The characters parse_value passes over, and the parser each other
\* character is handed to ("none": no parser): the whitespace characters
\* (Unicode White_Space) ...
SkippedWhitespace ==
    {
     " ", "\t", "\n", "U+000B", "U+000C", "\r", "U+0085", "U+00A0",
     "U+1680", "U+2000", "U+2001", "U+2002", "U+2003", "U+2004", "U+2005",
     "U+2006", "U+2007", "U+2008", "U+2009", "U+200A", "U+2028", "U+2029",
     "U+202F", "U+205F", "U+3000" }

\* ... and the control characters (Unicode Cc).
SkippedControl ==
    {
     "U+0000", "U+0001", "U+0002", "U+0003", "U+0004", "U+0005", "U+0006",
     "U+0007", "U+0008", "\t", "\n", "U+000B", "U+000C", "\r", "U+000E",
     "U+000F", "U+0010", "U+0011", "U+0012", "U+0013", "U+0014", "U+0015",
     "U+0016", "U+0017", "U+0018", "U+0019", "U+001A", "U+001B", "U+001C",
     "U+001D", "U+001E", "U+001F", "U+007F", "U+0080", "U+0081", "U+0082",
     "U+0083", "U+0084", "U+0085", "U+0086", "U+0087", "U+0088", "U+0089",
     "U+008A", "U+008B", "U+008C", "U+008D", "U+008E", "U+008F", "U+0090",
     "U+0091", "U+0092", "U+0093", "U+0094", "U+0095", "U+0096", "U+0097",
     "U+0098", "U+0099", "U+009A", "U+009B", "U+009C", "U+009D", "U+009E",
     "U+009F" }

Skipped == SkippedWhitespace \cup SkippedControl

Route(c) ==
    CASE c \in {"t", "f"} -> "parse_boolean"
      [] c = "\"" -> "parse_string"
      [] c \in Digits \cup {"-"} -> "parse_number"
      [] c = "{" -> "parse_object"
      [] c = "[" -> "parse_array"
      [] OTHER -> "none"

\* One step of parse_value, as the claim describes it.
C14_Step ==
    Running("parse_value") =>
        IF pos = Len(input)
        THEN result' = Err(UnexpectedEndOfInput)
        ELSE LET c == input[pos + 1]
             IN  IF c \in Skipped
                 THEN pos' = pos + 1 /\ stack' = stack /\ result' = NoResult
                 ELSE IF Route(c) = "none"
                      THEN result' = Err(UnexpectedTokenCh(c))
                      ELSE /\ pos' = pos + 1
                           /\ result' = NoResult
                           /\ Len(stack') = Len(stack)
                           /\ Top(stack').fn = Route(c)
                           /\ IF Route(c) = "parse_number"
                              THEN Top(stack').buffer = <<c>>
                              ELSE Top(stack').head = c

\* C14: parse_value passes over each whitespace or control character, hands
\* the first other character to the parser of its kind (`t`/`f` Boolean, `"`
\* String, digit or `-` Number, `{` Object, `[` Array), fails with
\* UnexpectedTokenCh(c) on any other character c and with
\* UnexpectedEndOfInput when the input ends first.
C14_Dispatch == [][C14_Step]_vars

C14_Witness ==
    /\ FirstParse
    /\ entry = "parse_json"
    /\ input = <<Backspace, FormFeed, "-", "1">>
    /\ pos = 3
    /\ stack # <<>>
    /\ Top(stack).fn = "parse_number"

\* C16: the arrays `[1,,2]` and `[1,2,]`, with a doubled and a trailing
\* comma, are accepted and parse to Ok(Array).
C16_CommaNoOp ==
    ((Parsed(Chars("[1,,2]")) \/ Parsed(Chars("[1,2,]"))) /\ Returned)
    => (result.kind = "Ok" /\ result.val.t = "Array")

\* The character a backslash escape stands for.
Decoded(c) ==
    IF c = "n" THEN "\n"
    ELSE IF c = "r" THEN "\r"
    ELSE IF c = "t" THEN "\t"
    ELSE IF c = "b" THEN Backspace
    ELSE IF c = "f" THEN FormFeed
    ELSE c

C17_Step ==
    (Running("parse_string") /\ pos < Len(input) /\ input[pos + 1] = "\\") =>
        IF pos + 1 = Len(input)
        THEN result' = Err(UnexpectedEndOfInput)
        ELSE /\ result' = NoResult
             /\ pos' = pos + 2
             /\ Len(stack') = Len(stack)
             /\ Top(stack').fn = "parse_string"
             /\ Top(stack').buffer = Append(Top(stack).buffer, Decoded(input[pos + 2]))

\* C17: inside a string a backslash and the character after it add exactly
\* one character to the content (newline, carriage return, tab, backspace,
\* form feed for n, r, t, b, f; the character itself otherwise) and the string
\* goes on; a backslash that ends the input yields Err(UnexpectedEndOfInput).
C17_Escapes == [][C17_Step]_vars

C17_Witness ==
    /\ FirstParse
    /\ entry = "parse_json"
    /\ input = Chars("\"\\r\\b\\f\\x\\/\"")
    /\ stack # <<>>
    /\ Top(stack).fn = "parse_string"
    /\ Top(stack).buffer = <<"\r", Backspace, FormFeed, "x">>
    /\ pos = 9

\* C18: a number that a terminator ended leaves that terminator as the next
\* character of the cursor.
C18_TerminatorLeft ==
    (FirstParse /\ Returned /\ entry = "parse_number" /\ result.kind = "Ok"
       /\ NumLiteral(CallText) # CallText)
    => /\ pos = Len(NumLiteral(CallText)) - 1
       /\ input[pos + 1] \in Terminators

\* C19: the text `null` parses to Ok(Null).
C19_Null ==
    (Parsed(Chars("null")) /\ Returned) => result = Ok(Null)

HasLeadingZero(lit) == Len(Unsigned(lit)) > 1 /\ Head(Unsigned(lit)) = "0"

\* C20: no call returns IntegerWithLeadingZero, and an integer literal with
\* leading zeros yields the Integer of its decimal value.
C20_LeadingZeros ==
    Returned =>
        /\ result.kind = "Err" => result.err.e # "IntegerWithLeadingZero"
        /\ (NumberCall /\ IsIntLiteral(NumLiteral(CallText))
              /\ HasLeadingZero(NumLiteral(CallText)) /\ InI64Range(NumLiteral(CallText)))
           => result = Ok(DecimalValue(NumLiteral(CallText)))

C20_Witness ==
    /\ FirstParse
    /\ entry = "parse_number"
    /\ CallText = Chars("0123")
    /\ result = Ok(Integer(FALSE, Chars("123")))

(***************************************************************************)
(* The key extraction, as its contract reads.                              *)
(***************************************************************************)
OccursAt(pat, buf, i) ==
    /\ i + Len(pat) - 1 <= Len(buf)
    /\ SubSeq(buf, i, i + Len(pat) - 1) = pat

\* 1-based start of the first occurrence of pat in buf, 0 when there is none.
FirstOccurrence(pat, buf) ==
    LET at == {i \in 1..Len(buf) : OccursAt(pat, buf, i)}
    IN  IF at = {} THEN 0 ELSE CHOOSE i \in at : \A j \in at : i <= j

\* The text of buf from position j (1-based) up to the next quote that no
\* backslash escapes, and whether there is such a quote.
RECURSIVE UpToUnescapedQuote(_, _)
UpToUnescapedQuote(buf, j) ==
    IF j > Len(buf) THEN [closed |-> FALSE, str |-> <<>>]
    ELSE IF buf[j] = "\"" THEN [closed |-> TRUE, str |-> <<>>]
    ELSE IF buf[j] = "\\" /\ j < Len(buf)
    THEN LET r == UpToUnescapedQuote(buf, j + 2)
         IN  [closed |-> r.closed, str |-> <<buf[j], buf[j + 1]>> \o r.str]
    ELSE LET r == UpToUnescapedQuote(buf, j + 1)
         IN  [closed |-> r.closed, str |-> <<buf[j]>> \o r.str]

\* Balanced buffers without whitespace: sanitize_json passes them unchanged.
Compact(buf) ==
    /\ \A i \in 1..Len(buf) : buf[i] # " "
    /\ sanitize_json(buf) = Some(buf)

\* C15: on a buffer that holds the pattern `"<key>":"`, extract_json_str
\* returns the text from the end of the first occurrence up to the next
\* unescaped `"`; on a buffer that does not hold it, it fails with NoPattern.
C15_Extract ==
    (entry = "extract_json_str" /\ extracted.kind # "none" /\ Compact(json_data)) =>
        LET i == FirstOccurrence(pattern(key), json_data)
            r == UpToUnescapedQuote(json_data, i + Len(pattern(key)))
        IN  IF i = 0
            THEN extracted.kind = "Err" /\ extracted.err.e = "NoPattern"
            ELSE r.closed => extracted = Ok(r.str)

\* C21: find_pattern returns Some((beg, end)) exactly when the needle occurs
\* in the haystack as a contiguous run; beg is then the start of the leftmost
\* occurrence (0-based), end = beg + len(needle) - 1, and haystack[beg..=end]
\* is the needle.
C21_FindPattern ==
    (entry = "find_pattern" /\ extracted # NoResult) =>
        LET i == FirstOccurrence(key, json_data)
        IN  IF i = 0 THEN extracted = None
            ELSE extracted = Some(<<i - 1, i + Len(key) - 2>>)

\* The buffer from position i on with its ASCII whitespace removed outside
\* string literals only; in_string tells whether position i lies inside one.
\* A backslash escapes the byte after it, so an escaped quote neither opens
\* nor closes a literal.
RECURSIVE StripOutside(_, _, _)
StripOutside(buf, i, in_string) ==
    IF i > Len(buf) THEN <<>>
    ELSE LET c == buf[i]
             kept(b) == IF in_string \/ b \notin {" ", "\t", "\n", "\r", FormFeed}
                        THEN <<b>> ELSE <<>>
         IN  IF c = "\\" /\ i < Len(buf)
             THEN <<c>> \o kept(buf[i + 1]) \o StripOutside(buf, i + 2, in_string)
             ELSE IF c = "\""
             THEN <<c>> \o StripOutside(buf, i + 1, ~in_string)
             ELSE kept(c) \o StripOutside(buf, i + 1, in_string)

\* C22: when sanitize_json returns Some(out), out is the input with its ASCII
\* whitespace removed outside string literals only; every byte between an
\* opening and a closing unescaped quote is kept, whitespace included.
C22_StringsKept ==
    (entry = "sanitize_json" /\ extracted # NoResult /\ extracted.some) =>
        extracted.v = StripOutside(json_data, 1, FALSE)

====
